---- MODULE Spec2Model ----
(***************************************************************************)
(* State-machine model of the PseuDos card game: the GameProvider of       *)
(* app/components/contexts/GameContext.tsx (current provider, lines        *)
(* 149-670) together with the event wiring of app/components/Game.tsx      *)
(* (button guards, handlePlaySelectedCards, the computer-turn timer).      *)
(*                                                                         *)
(* A card is its id in createDeck's numbering: suits are pushed in the     *)
(* order hearts, diamonds, clubs, spades and the 13 values 2..A inside     *)
(* each suit, so id = 13 * suitIndex + valueIndex.                         *)
(***************************************************************************)
EXTENDS Integers, Sequences, FiniteSets, TLC

VARIABLES
  gameStarted,         \* useState gameStarted
  playerHand,          \* useState playerHand (order is never read: a set)
  computerHand,        \* useState computerHand (order read by computerPlay)
  playArea,            \* useState playArea: the table history
  selectedCards,       \* useState selectedCards: the staging area
  currentPlayer,       \* useState currentPlayer
  deck,                \* module-level `let deck`
  deckSize,            \* useState deckSize
  winner,              \* useState winner
  playerWins,          \* useState playerWins
  computerWins,        \* useState computerWins
  lastMoveWasDouble,   \* useState lastMoveWasDouble
  lastMoveWasFiveCard, \* useState lastMoveWasFiveCard
  roundReset,          \* useState roundReset
  timer,               \* Game.tsx: a computerPlay timeout is pending
  lastPlay,            \* history: the cards of the last accepted play
  sinceDraw,           \* history: a card was drawn after the last play
  rejected,            \* history: the last step was a rejected play attempt
  dealt,               \* history: the cards of the deck startGame dealt from
  newHand,             \* GameRules.ts: the argument newCards (or cards) of a call
  lastHand,            \* GameRules.ts: the argument lastCards of a call
  classified,          \* GameRules.ts: what the classifiers returned for newHand
  compared,            \* GameRules.ts: what the comparators returned for the two hands
  aiHand,              \* chooseBestPlay: the argument hand
  aiLastPlay,          \* chooseBestPlay: the argument lastPlay
  aiGameState,         \* chooseBestPlay: the argument gameState
  aiChosen             \* chooseBestPlay: what it returned

vars == <<gameStarted, playerHand, computerHand, playArea, selectedCards,
          currentPlayer, deck, deckSize, winner, playerWins, computerWins,
          lastMoveWasDouble, lastMoveWasFiveCard, roundReset, timer,
          lastPlay, sinceDraw, rejected, dealt,
          newHand, lastHand, classified, compared,
          aiHand, aiLastPlay, aiGameState, aiChosen>>

\* the variables of the provider and of its timer, and those of the rules calls
gameVars == <<gameStarted, playerHand, computerHand, playArea, selectedCards,
              currentPlayer, deck, deckSize, winner, playerWins, computerWins,
              lastMoveWasDouble, lastMoveWasFiveCard, roundReset, timer,
              lastPlay, sinceDraw, rejected, dealt>>
rulesVars == <<newHand, lastHand, classified, compared>>
strategyVars == <<aiHand, aiLastPlay, aiGameState, aiChosen>>

\* no call of the rules module has returned yet
NotCalled == [called |-> FALSE]

\* null where a Play is expected: what getPlayInfo returns for a set it does
\* not know, a missing lastPlay, and a pass of chooseBestPlay
NoPlay == [type |-> "null", cards |-> <<>>, rankValue |-> 0, highestSuitValue |-> 0]

\* an optional number that was not given
Undefined == -1

\* null where a gameState is expected
NoGameState == [isNull |-> TRUE, playAreaLength |-> Undefined, opponentCardCount |-> Undefined]

NoWinner == "none"

(***************************************************************************)
(* Bounds of the model.                                                    *)
(***************************************************************************)
\* cards dealt to each side by startGame (the program deals 9)
HandSize == 7
\* games that may be started (the win counters grow without bound)
MaxGames == 1

(***************************************************************************)
(* Cards.                                                                  *)
(***************************************************************************)
MaxSelected == 5
ValuesPerSuit == 13
HighestSuit == 4
LowestValue == 2
TenValue == 10
AceValue == 14

cardValues(c) == (c % ValuesPerSuit) + LowestValue
suitValues(c) == HighestSuit - (c \div ValuesPerSuit)

\* the card of a given value (2..14) and suit value (1 spade .. 4 heart)
Card(v, s) == (HighestSuit - s) * ValuesPerSuit + (v - LowestValue)

Range(s) == {s[i] : i \in 1..Len(s)}

\* F applied to the value of x, which is computed once
With(x, F(_)) == CHOOSE r \in {F(v) : v \in {x}} : TRUE

RECURSIVE Without(_, _)
Without(s, S) ==
  IF s = <<>> THEN <<>>
  ELSE IF Head(s) \in S THEN Without(Tail(s), S)
       ELSE <<Head(s)>> \o Without(Tail(s), S)

LastN(s, n) == SubSeq(s, Len(s) - n + 1, Len(s))

\* Array.prototype.sort is stable: equal keys keep their order.
RECURSIVE InsertByValue(_, _)
InsertByValue(c, s) ==
  IF s = <<>> THEN <<c>>
  ELSE IF cardValues(c) < cardValues(Head(s)) THEN <<c>> \o s
       ELSE <<Head(s)>> \o InsertByValue(c, Tail(s))

RECURSIVE SortByValue(_)
SortByValue(s) ==
  IF s = <<>> THEN <<>>
  ELSE InsertByValue(s[Len(s)], SortByValue(SubSeq(s, 1, Len(s) - 1)))

CardLess(a, b) ==
  \/ cardValues(a) < cardValues(b)
  \/ cardValues(a) = cardValues(b) /\ suitValues(a) < suitValues(b)

RECURSIVE InsertByValueSuit(_, _)
InsertByValueSuit(c, s) ==
  IF s = <<>> THEN <<c>>
  ELSE IF CardLess(c, Head(s)) THEN <<c>> \o s
       ELSE <<Head(s)>> \o InsertByValueSuit(c, Tail(s))

RECURSIVE SortByValueSuit(_)
SortByValueSuit(s) ==
  IF s = <<>> THEN <<>>
  ELSE InsertByValueSuit(s[Len(s)], SortByValueSuit(SubSeq(s, 1, Len(s) - 1)))

CountOfValue(cards, v) == Cardinality({i \in 1..Len(cards) : cardValues(cards[i]) = v})

(***************************************************************************)
(* Rules helpers of GameContext.tsx.                                       *)
(***************************************************************************)
isValidStraight(cards) ==
  /\ Len(cards) = 5
  /\ LET sortedCards == SortByValue(cards) IN
       \/ /\ cardValues(sortedCards[1]) = TenValue
          /\ cardValues(sortedCards[2]) = TenValue + 1
          /\ cardValues(sortedCards[3]) = TenValue + 2
          /\ cardValues(sortedCards[4]) = TenValue + 3
          /\ cardValues(sortedCards[5]) = AceValue
       \/ \A i \in 2..5 : cardValues(sortedCards[i]) = cardValues(sortedCards[i - 1]) + 1

isValidTriplePlusTwo(cards) ==
  /\ Len(cards) = 5
  /\ \E i \in 1..5 : CountOfValue(cards, cardValues(cards[i])) = 3

getHighestSuitInStraight(cards) ==
  LET top == CHOOSE c \in Range(cards) : \A d \in Range(cards) : d = c \/ CardLess(d, c)
  IN suitValues(top)

MaxValue(cards) ==
  CHOOSE v \in {cardValues(c) : c \in Range(cards)} :
    \A c \in Range(cards) : cardValues(c) <= v

getTripleValue(cards) ==
  LET triples == {cardValues(c) : c \in {d \in Range(cards) : CountOfValue(cards, cardValues(d)) = 3}}
  IN IF triples = {} THEN 0 ELSE CHOOSE v \in triples : TRUE

compareFiveCardCombinations(newCards, lastCards) ==
  LET isNewStraight == isValidStraight(newCards)
      isLastStraight == isValidStraight(lastCards)
  IN IF isNewStraight /\ ~isLastStraight THEN TRUE
     ELSE IF ~isNewStraight /\ isLastStraight THEN FALSE
     ELSE IF isNewStraight /\ isLastStraight
          THEN IF MaxValue(newCards) > MaxValue(lastCards) THEN TRUE
               ELSE IF MaxValue(newCards) < MaxValue(lastCards) THEN FALSE
               ELSE getHighestSuitInStraight(newCards) > getHighestSuitInStraight(lastCards)
          ELSE getTripleValue(newCards) > getTripleValue(lastCards)

\* a variant that takes the suit of the first card
FirstSuit(a, b) == suitValues(a)

MaxSuit(a, b) == IF suitValues(a) > suitValues(b) THEN suitValues(a) ELSE suitValues(b)

\* isValidMove, lines 340-378: does `cards` beat `lastPlayed`
beatsLastPlayed(cards, lastPlayed) ==
  IF Len(lastPlayed) = 1
  THEN \/ cardValues(cards[1]) > cardValues(lastPlayed[1])
       \/ /\ cardValues(cards[1]) = cardValues(lastPlayed[1])
          /\ suitValues(cards[1]) > suitValues(lastPlayed[1])
  ELSE IF Len(lastPlayed) = 2
  THEN \/ cardValues(cards[1]) > cardValues(lastPlayed[1])
       \/ /\ cardValues(cards[1]) = cardValues(lastPlayed[1])
          /\ MaxSuit(cards[1], cards[2]) > MaxSuit(lastPlayed[1], lastPlayed[2])
  ELSE IF Len(lastPlayed) = 5
  THEN compareFiveCardCombinations(cards, lastPlayed)
  ELSE FALSE

getLastPlayedCards ==
  IF Len(playArea) = 0 THEN <<>>
  ELSE IF lastMoveWasDouble /\ Len(playArea) >= 2 THEN LastN(playArea, 2)
       ELSE LastN(playArea, 1)

\* a variant that lets any size open the table
matchesRoundOpenLead(cards) ==
  roundReset \/ Len(playArea) = 0 \/
    /\ ~(lastMoveWasDouble /\ Len(cards) # 2)
    /\ ~(lastMoveWasFiveCard /\ Len(cards) # 5)
    /\ ~(~lastMoveWasDouble /\ ~lastMoveWasFiveCard /\ Len(cards) # 1)

\* isValidMove, lines 311-322: the size the round demands
matchesRound(cards) ==
  roundReset \/
    /\ ~(lastMoveWasDouble /\ Len(cards) # 2)
    /\ ~(lastMoveWasFiveCard /\ Len(cards) # 5)
    /\ ~(~lastMoveWasDouble /\ ~lastMoveWasFiveCard /\ Len(cards) # 1)

isValidMove(cards) ==
  /\ Len(cards) # 0
  /\ matchesRound(cards)
  /\ ~(Len(cards) = 2 /\ cardValues(cards[1]) # cardValues(cards[2]))
  /\ ~(Len(cards) = 5 /\ ~isValidTriplePlusTwo(cards) /\ ~isValidStraight(cards))
  /\ LET lastPlayed == getLastPlayedCards
     IN Len(lastPlayed) = 0 \/ beatsLastPlayed(cards, lastPlayed)

(***************************************************************************)
(* The deck.  createDeck builds the 52 cards in id order and shuffleDeck   *)
(* permutes them; the model deals from the listed sub-decks of the 52      *)
(* cards, each in the listed order.                                        *)
(***************************************************************************)
Spade == 1
Club == 2
Diamond == 3
Heart == 4

ShuffleA ==
  << Card(AceValue, Heart), Card(2, Spade), Card(3, Spade), Card(4, Spade),
     Card(5, Spade), Card(6, Spade), Card(6, Club),
     Card(7, Spade), Card(7, Club), Card(7, Diamond), Card(8, Spade),
     Card(8, Club), Card(9, Spade), Card(9, Club),
     Card(7, Heart) >>

ShuffleB ==
  << Card(2, Spade), Card(4, Spade), Card(6, Spade), Card(7, Spade),
     Card(7, Diamond), Card(8, Spade), Card(9, Spade),
     Card(3, Spade), Card(5, Spade), Card(6, Club), Card(7, Club),
     Card(7, Heart), Card(8, Club), Card(9, Club) >>

createDeck == {ShuffleA, ShuffleB}

(***************************************************************************)
(* The winner check: the useEffect that runs after every update.           *)
(***************************************************************************)
\* a variant that does not return early once a winner is recorded
WinnerEffectNotLatched ==
  /\ winner' = IF playerHand' = {} THEN "player"
               ELSE IF computerHand' = <<>> THEN "computer"
               ELSE NoWinner
  /\ playerWins' = IF winner' = "player" /\ winner # "player"
                   THEN playerWins + 1 ELSE playerWins
  /\ computerWins' = IF winner' = "computer" /\ winner # "computer"
                     THEN computerWins + 1 ELSE computerWins

WinnerEffect ==
  /\ winner' = IF winner # NoWinner THEN winner
               ELSE IF playerHand' = {} THEN "player"
               ELSE IF computerHand' = <<>> THEN "computer"
               ELSE NoWinner
  /\ playerWins' = IF winner = NoWinner /\ winner' = "player"
                   THEN playerWins + 1 ELSE playerWins
  /\ computerWins' = IF winner = NoWinner /\ winner' = "computer"
                     THEN computerWins + 1 ELSE computerWins

\* a variant whose cleanup does not clear a pending timeout
TimerEffectNeverCleared == timer' = (timer \/ currentPlayer' = "computer")

\* Game.tsx: the effect re-arms the timeout after every render
TimerEffect == timer' = (currentPlayer' = "computer")

(***************************************************************************)
(* startGame / playAgain.                                                  *)
(***************************************************************************)
GameInit ==
  /\ gameStarted = FALSE
  /\ playerHand = {}
  /\ computerHand = <<>>
  /\ playArea = <<>>
  /\ selectedCards = <<>>
  /\ currentPlayer = "player"
  /\ deck = <<>>
  /\ deckSize = 52
  /\ winner = NoWinner
  /\ playerWins = 0
  /\ computerWins = 0
  /\ lastMoveWasDouble = FALSE
  /\ lastMoveWasFiveCard = FALSE
  /\ roundReset = FALSE
  /\ timer = FALSE
  /\ lastPlay = <<>>
  /\ sinceDraw = FALSE
  /\ rejected = FALSE
  /\ dealt = {}

Init ==
  /\ GameInit
  /\ newHand = <<>>
  /\ lastHand = <<>>
  /\ classified = NotCalled
  /\ compared = NotCalled
  /\ aiHand = <<>>
  /\ aiLastPlay = NoPlay
  /\ aiGameState = NoGameState
  /\ aiChosen = NotCalled

\* Array.prototype.splice(0, n): the first n elements, or all there are
SpliceCount(s, n) == IF Len(s) < n THEN Len(s) ELSE n

\* a variant whose first splice leaves the dealt cards in the deck
startGameWithoutRemoving(shuffled, first) ==
  /\ LET initialPlayerHand == SubSeq(shuffled, 1, SpliceCount(shuffled, HandSize))
         afterPlayer == shuffled
         initialComputerHand == SubSeq(afterPlayer, 1, SpliceCount(afterPlayer, HandSize))
     IN /\ playerHand' = Range(initialPlayerHand)
        /\ computerHand' = initialComputerHand
        /\ deck' = SubSeq(afterPlayer, Len(initialComputerHand) + 1, Len(afterPlayer))
  /\ deckSize' = Len(deck')
  /\ playArea' = <<>>
  /\ selectedCards' = <<>>
  /\ winner' = NoWinner
  /\ gameStarted' = TRUE
  /\ lastMoveWasDouble' = FALSE
  /\ lastMoveWasFiveCard' = FALSE
  /\ roundReset' = FALSE
  /\ currentPlayer' = first
  /\ TimerEffect
  /\ lastPlay' = <<>>
  /\ sinceDraw' = FALSE
  /\ rejected' = FALSE
  /\ dealt' = Range(shuffled)
  /\ UNCHANGED <<playerWins, computerWins>>

\* a variant that leaves the round flags of the old game
startGameKeepingFlags(shuffled, first) ==
  /\ LET initialPlayerHand == SubSeq(shuffled, 1, SpliceCount(shuffled, HandSize))
         afterPlayer == SubSeq(shuffled, Len(initialPlayerHand) + 1, Len(shuffled))
         initialComputerHand == SubSeq(afterPlayer, 1, SpliceCount(afterPlayer, HandSize))
     IN /\ playerHand' = Range(initialPlayerHand)
        /\ computerHand' = initialComputerHand
        /\ deck' = SubSeq(afterPlayer, Len(initialComputerHand) + 1, Len(afterPlayer))
  /\ deckSize' = Len(deck')
  /\ playArea' = <<>>
  /\ selectedCards' = <<>>
  /\ winner' = NoWinner
  /\ gameStarted' = TRUE
  /\ lastMoveWasDouble' = lastMoveWasDouble
  /\ lastMoveWasFiveCard' = lastMoveWasFiveCard
  /\ roundReset' = roundReset
  /\ currentPlayer' = first
  /\ TimerEffect
  /\ lastPlay' = <<>>
  /\ sinceDraw' = FALSE
  /\ rejected' = FALSE
  /\ dealt' = Range(shuffled)
  /\ UNCHANGED <<playerWins, computerWins>>

startGame(shuffled, first) ==
  /\ LET initialPlayerHand == SubSeq(shuffled, 1, SpliceCount(shuffled, HandSize))
         afterPlayer == SubSeq(shuffled, Len(initialPlayerHand) + 1, Len(shuffled))
         initialComputerHand == SubSeq(afterPlayer, 1, SpliceCount(afterPlayer, HandSize))
     IN /\ playerHand' = Range(initialPlayerHand)
        /\ computerHand' = initialComputerHand
        /\ deck' = SubSeq(afterPlayer, Len(initialComputerHand) + 1, Len(afterPlayer))
  /\ deckSize' = Len(deck')
  /\ playArea' = <<>>
  /\ selectedCards' = <<>>
  /\ winner' = NoWinner
  /\ gameStarted' = TRUE
  /\ lastMoveWasDouble' = FALSE
  /\ lastMoveWasFiveCard' = FALSE
  /\ roundReset' = FALSE
  /\ currentPlayer' = first
  /\ TimerEffect
  /\ lastPlay' = <<>>
  /\ sinceDraw' = FALSE
  /\ rejected' = FALSE
  /\ dealt' = Range(shuffled)
  /\ UNCHANGED <<playerWins, computerWins>>

\* the Start Game button (welcome screen) and the Play Again button
StartGame ==
  /\ ~gameStarted \/ winner # NoWinner
  /\ playerWins + computerWins < MaxGames
  /\ \E shuffled \in createDeck : \E first \in {"player", "computer"} :
       startGame(shuffled, first)
  /\ UNCHANGED <<rulesVars, strategyVars>>

(***************************************************************************)
(* selectCard / deselectCard.                                              *)
(***************************************************************************)
\* selectCard as the closure of an earlier render: the test reads the
\* selection of that render, the functional updaters the current state
selectCardOfRender(card, renderSelected) ==
  /\ Len(renderSelected) < MaxSelected
  /\ selectedCards' = Append(selectedCards, card)
  /\ playerHand' = playerHand \ {card}
  /\ UNCHANGED <<gameStarted, computerHand, playArea, currentPlayer, deck,
                 deckSize, lastMoveWasDouble, lastMoveWasFiveCard, roundReset,
                 lastPlay, sinceDraw, dealt>>
  /\ rejected' = FALSE
  /\ WinnerEffect
  /\ TimerEffect

selectCard(card) ==
  /\ Len(selectedCards) < MaxSelected
  /\ selectedCards' = Append(selectedCards, card)
  /\ playerHand' = playerHand \ {card}
  /\ UNCHANGED <<gameStarted, computerHand, playArea, currentPlayer, deck,
                 deckSize, lastMoveWasDouble, lastMoveWasFiveCard, roundReset,
                 lastPlay, sinceDraw, dealt>>
  /\ rejected' = FALSE
  /\ WinnerEffect
  /\ TimerEffect

SelectCard ==
  /\ gameStarted
  /\ \E card \in playerHand : selectCard(card)
  /\ UNCHANGED <<rulesVars, strategyVars>>

deselectCard(card) ==
  /\ selectedCards' = Without(selectedCards, {card})
  /\ playerHand' = playerHand \cup {card}
  /\ UNCHANGED <<gameStarted, computerHand, playArea, currentPlayer, deck,
                 deckSize, lastMoveWasDouble, lastMoveWasFiveCard, roundReset,
                 lastPlay, sinceDraw, dealt>>
  /\ rejected' = FALSE
  /\ WinnerEffect
  /\ TimerEffect

DeselectCard ==
  /\ gameStarted
  /\ \E card \in Range(selectedCards) : deselectCard(card)
  /\ UNCHANGED <<rulesVars, strategyVars>>

(***************************************************************************)
(* playSelectedCards, behind the Play button and handlePlaySelectedCards.  *)
(***************************************************************************)
\* Game.tsx: the Play button is enabled
playEnabled ==
  /\ currentPlayer = "player"
  /\ Len(selectedCards) \in {1, 2, 5}
  /\ winner = NoWinner

\* a variant that hands every selection to playSelectedCards
handlePlaySelectedCardsUnchecked == TRUE

\* Game.tsx handlePlaySelectedCards: the checks before playSelectedCards
handlePlaySelectedCards ==
  /\ ~(Len(selectedCards) = 2
        /\ cardValues(selectedCards[1]) # cardValues(selectedCards[2]))
  /\ Len(selectedCards) = 5 =>
        \/ \E i \in 1..5 : CountOfValue(selectedCards, cardValues(selectedCards[i])) = 3
        \/ isValidStraight(selectedCards)

\* a variant that forgets to return the staged cards
rejectPlayDroppingCards ==
  /\ playerHand' = playerHand
  /\ selectedCards' = <<>>
  /\ rejected' = TRUE
  /\ UNCHANGED <<gameStarted, computerHand, playArea, currentPlayer, deck,
                 deckSize, lastMoveWasDouble, lastMoveWasFiveCard, roundReset,
                 lastPlay, sinceDraw, dealt>>

\* a variant that passes the turn on a rejection
rejectPlayPassingTurn ==
  /\ playerHand' = playerHand \cup Range(selectedCards)
  /\ selectedCards' = <<>>
  /\ rejected' = TRUE
  /\ currentPlayer' = "computer"
  /\ UNCHANGED <<gameStarted, computerHand, playArea, deck,
                 deckSize, lastMoveWasDouble, lastMoveWasFiveCard, roundReset,
                 lastPlay, sinceDraw, dealt>>

\* playSelectedCards, lines 388-394: the rejected attempt
rejectPlay ==
  /\ playerHand' = playerHand \cup Range(selectedCards)
  /\ selectedCards' = <<>>
  /\ rejected' = TRUE
  /\ UNCHANGED <<gameStarted, computerHand, playArea, currentPlayer, deck,
                 deckSize, lastMoveWasDouble, lastMoveWasFiveCard, roundReset,
                 lastPlay, sinceDraw, dealt>>

\* a variant that keeps only the current play on the table
acceptPlayReplacingTable ==
  /\ playArea' = selectedCards
  /\ IF currentPlayer = "player"
     THEN /\ playerHand' = playerHand \ Range(selectedCards)
          /\ currentPlayer' = "computer"
          /\ UNCHANGED computerHand
     ELSE /\ computerHand' = Without(computerHand, Range(selectedCards))
          /\ currentPlayer' = "player"
          /\ UNCHANGED playerHand
  /\ lastMoveWasDouble' = (Len(selectedCards) = 2)
  /\ lastMoveWasFiveCard' = (Len(selectedCards) = 5)
  /\ selectedCards' = <<>>
  /\ roundReset' = FALSE
  /\ lastPlay' = selectedCards
  /\ sinceDraw' = FALSE
  /\ rejected' = FALSE
  /\ UNCHANGED <<gameStarted, deck, deckSize, dealt>>

\* playSelectedCards, lines 396-432: the accepted play
\* a variant that leaves the round flags as they were
acceptPlayKeepingFlags ==
  /\ playArea' = playArea \o selectedCards
  /\ IF currentPlayer = "player"
     THEN /\ playerHand' = playerHand \ Range(selectedCards)
          /\ currentPlayer' = "computer"
          /\ UNCHANGED computerHand
     ELSE /\ computerHand' = Without(computerHand, Range(selectedCards))
          /\ currentPlayer' = "player"
          /\ UNCHANGED playerHand
  /\ UNCHANGED <<lastMoveWasDouble, lastMoveWasFiveCard>>
  /\ selectedCards' = <<>>
  /\ roundReset' = FALSE
  /\ lastPlay' = selectedCards
  /\ sinceDraw' = FALSE
  /\ rejected' = FALSE
  /\ UNCHANGED <<gameStarted, deck, deckSize, dealt>>

acceptPlay ==
  /\ playArea' = playArea \o selectedCards
  /\ IF currentPlayer = "player"
     THEN /\ playerHand' = playerHand \ Range(selectedCards)
          /\ currentPlayer' = "computer"
          /\ UNCHANGED computerHand
     ELSE /\ computerHand' = Without(computerHand, Range(selectedCards))
          /\ currentPlayer' = "player"
          /\ UNCHANGED playerHand
  /\ lastMoveWasDouble' = (Len(selectedCards) = 2)
  /\ lastMoveWasFiveCard' = (Len(selectedCards) = 5)
  /\ selectedCards' = <<>>
  /\ roundReset' = FALSE
  /\ lastPlay' = selectedCards
  /\ sinceDraw' = FALSE
  /\ rejected' = FALSE
  /\ UNCHANGED <<gameStarted, deck, deckSize, dealt>>

\* a variant that never validates
playSelectedCardsUnchecked ==
  /\ Len(selectedCards) # 0
  /\ acceptPlay
  /\ WinnerEffect
  /\ TimerEffect

playSelectedCards ==
  /\ Len(selectedCards) # 0
  /\ IF ~roundReset /\ ~isValidMove(selectedCards) THEN rejectPlay ELSE acceptPlay
  /\ WinnerEffect
  /\ TimerEffect

PlaySelectedCards ==
  /\ gameStarted
  /\ playEnabled
  /\ handlePlaySelectedCards
  /\ playSelectedCards
  /\ UNCHANGED <<rulesVars, strategyVars>>

(***************************************************************************)
(* drawCard.                                                               *)
(***************************************************************************)
\* a variant that does not lift the constraint
drawCardKeepingConstraint ==
  IF deckSize > 0
  THEN /\ IF Len(deck) > 0
          THEN /\ deck' = SubSeq(deck, 1, Len(deck) - 1)
               /\ deckSize' = deckSize - 1
               /\ IF currentPlayer = "player"
                  THEN /\ playerHand' = playerHand \cup {deck[Len(deck)]}
                       /\ UNCHANGED computerHand
                  ELSE /\ computerHand' = Append(computerHand, deck[Len(deck)])
                       /\ UNCHANGED playerHand
               /\ sinceDraw' = TRUE
          ELSE UNCHANGED <<deck, deckSize, playerHand, computerHand, sinceDraw>>
       /\ currentPlayer' = IF currentPlayer = "player" THEN "computer" ELSE "player"
       /\ roundReset' = roundReset
       /\ rejected' = FALSE
       /\ UNCHANGED <<gameStarted, playArea, selectedCards, lastMoveWasDouble,
                      lastMoveWasFiveCard, lastPlay, dealt>>
       /\ WinnerEffect
       /\ TimerEffect
  ELSE \* nothing is set: no render follows, and the timeout is not re-armed
       /\ timer' = FALSE
       /\ rejected' = FALSE
       /\ UNCHANGED <<gameStarted, playerHand, computerHand, playArea,
                      selectedCards, currentPlayer, deck, deckSize, winner,
                      playerWins, computerWins, lastMoveWasDouble,
                      lastMoveWasFiveCard, roundReset, lastPlay, sinceDraw, dealt>>

\* a variant that pops the card without counting it
drawCardNotCounting ==
  IF deckSize > 0
  THEN /\ IF Len(deck) > 0
          THEN /\ deck' = SubSeq(deck, 1, Len(deck) - 1)
               /\ deckSize' = deckSize
               /\ IF currentPlayer = "player"
                  THEN /\ playerHand' = playerHand \cup {deck[Len(deck)]}
                       /\ UNCHANGED computerHand
                  ELSE /\ computerHand' = Append(computerHand, deck[Len(deck)])
                       /\ UNCHANGED playerHand
               /\ sinceDraw' = TRUE
          ELSE UNCHANGED <<deck, deckSize, playerHand, computerHand, sinceDraw>>
       /\ currentPlayer' = IF currentPlayer = "player" THEN "computer" ELSE "player"
       /\ roundReset' = TRUE
       /\ rejected' = FALSE
       /\ UNCHANGED <<gameStarted, playArea, selectedCards, lastMoveWasDouble,
                      lastMoveWasFiveCard, lastPlay, dealt>>
       /\ WinnerEffect
       /\ TimerEffect
  ELSE \* nothing is set: no render follows, and the timeout is not re-armed
       /\ timer' = FALSE
       /\ rejected' = FALSE
       /\ UNCHANGED <<gameStarted, playerHand, computerHand, playArea,
                      selectedCards, currentPlayer, deck, deckSize, winner,
                      playerWins, computerWins, lastMoveWasDouble,
                      lastMoveWasFiveCard, roundReset, lastPlay, sinceDraw, dealt>>

drawCard ==
  IF deckSize > 0
  THEN /\ IF Len(deck) > 0
          THEN /\ deck' = SubSeq(deck, 1, Len(deck) - 1)
               /\ deckSize' = deckSize - 1
               /\ IF currentPlayer = "player"
                  THEN /\ playerHand' = playerHand \cup {deck[Len(deck)]}
                       /\ UNCHANGED computerHand
                  ELSE /\ computerHand' = Append(computerHand, deck[Len(deck)])
                       /\ UNCHANGED playerHand
               /\ sinceDraw' = TRUE
          ELSE UNCHANGED <<deck, deckSize, playerHand, computerHand, sinceDraw>>
       /\ currentPlayer' = IF currentPlayer = "player" THEN "computer" ELSE "player"
       /\ roundReset' = TRUE
       /\ rejected' = FALSE
       /\ UNCHANGED <<gameStarted, playArea, selectedCards, lastMoveWasDouble,
                      lastMoveWasFiveCard, lastPlay, dealt>>
       /\ WinnerEffect
       /\ TimerEffect
  ELSE \* nothing is set: no render follows, and the timeout is not re-armed
       /\ timer' = FALSE
       /\ rejected' = FALSE
       /\ UNCHANGED <<gameStarted, playerHand, computerHand, playArea,
                      selectedCards, currentPlayer, deck, deckSize, winner,
                      playerWins, computerWins, lastMoveWasDouble,
                      lastMoveWasFiveCard, roundReset, lastPlay, sinceDraw, dealt>>

\* Game.tsx: the Draw button and the deck are enabled
drawEnabled ==
  /\ currentPlayer = "player"
  /\ deckSize # 0
  /\ winner = NoWinner

DrawCard ==
  /\ gameStarted
  /\ drawEnabled
  /\ drawCard
  /\ UNCHANGED <<rulesVars, strategyVars>>

(***************************************************************************)
(* computerPlay, run by the timeout of Game.tsx.                           *)
(***************************************************************************)
cardsOfValue(hand, v) == SelectSeq(hand, LAMBDA c : cardValues(c) = v)

FirstIndex(hand, v) == CHOOSE i \in 1..Len(hand) :
  /\ cardValues(hand[i]) = v
  /\ \A j \in 1..(i - 1) : cardValues(hand[j]) # v

\* Object.entries lists the integer-like keys "2".."10" in ascending order,
\* then the keys J, Q, K, A in the order they were inserted
entryOrder(hand, v) == IF v <= TenValue THEN v ELSE AceValue + FirstIndex(hand, v)

\* lines 494-512: a triple <<i, j, k>> of the cards of value v, and two of the
\* remaining cards <<l, m>>
tripleChoices(hand) ==
  { t \in {cardValues(c) : c \in Range(hand)} \X (1..4) \X (1..4) \X (1..4)
            \X (1..Len(hand)) \X (1..Len(hand)) :
      /\ t[2] < t[3] /\ t[3] < t[4]
      /\ t[4] <= Len(cardsOfValue(hand, t[1]))
      /\ t[5] < t[6] /\ t[6] <= Len(hand) - 3 }

tripleCombination(hand, t) ==
  LET cards == cardsOfValue(hand, t[1])
      triple == <<cards[t[2]], cards[t[3]], cards[t[4]]>>
      remainingCards == Without(hand, Range(triple))
  IN triple \o <<remainingCards[t[5]], remainingCards[t[6]]>>

\* the position of a choice in possibleCombinations
tripleOrder(hand, t) ==
  LET b == Len(hand) + 1
  IN ((((entryOrder(hand, t[1]) * b + t[2]) * b + t[3]) * b + t[4]) * b + t[5]) * b + t[6]

\* lines 515-521: the windows of the value-sorted hand that are straights
straightWindows(hand) ==
  { i \in 1..(Len(hand) - 4) : isValidStraight(SubSeq(SortByValue(hand), i, i + 4)) }

\* lines 482-537: the first of possibleCombinations that isValidMove accepts
firstFiveCardPlay(hand) ==
  LET triples == {t \in tripleChoices(hand) : isValidMove(tripleCombination(hand, t))}
      windows == {i \in straightWindows(hand) :
                    isValidMove(SubSeq(SortByValue(hand), i, i + 4))}
  IN IF triples # {}
     THEN tripleCombination(hand,
            CHOOSE t \in triples :
              \A u \in triples : tripleOrder(hand, t) <= tripleOrder(hand, u))
     ELSE IF windows # {}
     THEN LET i == CHOOSE w \in windows : \A x \in windows : w <= x
          IN SubSeq(SortByValue(hand), i, i + 4)
     ELSE <<>>

\* lines 548-573: the first pair <<i, j>> that isValidMove accepts
firstPairPlay(hand) ==
  LET pairs == { p \in (1..Len(hand)) \X (1..Len(hand)) :
                   /\ p[1] < p[2]
                   /\ cardValues(hand[p[1]]) = cardValues(hand[p[2]])
                   /\ isValidMove(<<hand[p[1]], hand[p[2]]>>) }
  IN IF pairs = {} THEN <<>>
     ELSE LET p == CHOOSE q \in pairs : \A r \in pairs :
                     q[1] < r[1] \/ (q[1] = r[1] /\ q[2] <= r[2])
          IN <<hand[p[1]], hand[p[2]]>>

isCardHigher(card, lastCard) ==
  \/ cardValues(card) > cardValues(lastCard)
  \/ /\ cardValues(card) = cardValues(lastCard)
     /\ suitValues(card) > suitValues(lastCard)

\* lines 583-590
playableCards(hand) ==
  IF roundReset \/ Len(getLastPlayedCards) = 0 THEN hand
  ELSE SelectSeq(hand, LAMBDA c : isCardHigher(c, getLastPlayedCards[1]))

\* a variant that leaves the round open after the play
computerCommitKeepingRoundOpen(cards, hand, double, five) ==
  /\ computerHand' = Without(hand, Range(cards))
  /\ playArea' = playArea \o cards
  /\ currentPlayer' = "player"
  /\ lastMoveWasDouble' = double
  /\ lastMoveWasFiveCard' = five
  /\ roundReset' = roundReset
  /\ lastPlay' = cards
  /\ sinceDraw' = FALSE
  /\ rejected' = FALSE
  /\ UNCHANGED <<gameStarted, playerHand, selectedCards, deck, deckSize, dealt>>
  /\ WinnerEffect
  /\ TimerEffect

\* the state updates of a computer play of `cards` out of `hand`
computerCommit(cards, hand, double, five) ==
  /\ computerHand' = Without(hand, Range(cards))
  /\ playArea' = playArea \o cards
  /\ currentPlayer' = "player"
  /\ lastMoveWasDouble' = double
  /\ lastMoveWasFiveCard' = five
  /\ roundReset' = FALSE
  /\ lastPlay' = cards
  /\ sinceDraw' = FALSE
  /\ rejected' = FALSE
  /\ UNCHANGED <<gameStarted, playerHand, selectedCards, deck, deckSize, dealt>>
  /\ WinnerEffect
  /\ TimerEffect

computerPlay ==
  IF Len(computerHand) = 0
  THEN /\ timer' = FALSE
       /\ rejected' = FALSE
       /\ UNCHANGED <<gameStarted, playerHand, computerHand, playArea,
                      selectedCards, currentPlayer, deck, deckSize, winner,
                      playerWins, computerWins, lastMoveWasDouble,
                      lastMoveWasFiveCard, roundReset, lastPlay, sinceDraw, dealt>>
  ELSE IF lastMoveWasFiveCard /\ ~roundReset
  THEN LET combination == firstFiveCardPlay(computerHand)
       IN IF combination # <<>>
          THEN computerCommit(combination, computerHand, lastMoveWasDouble, TRUE)
          ELSE drawCard
  ELSE IF lastMoveWasDouble /\ ~roundReset
  THEN LET candidatePair == firstPairPlay(computerHand)
       IN IF candidatePair # <<>>
          THEN computerCommit(candidatePair, computerHand, TRUE, FALSE)
          ELSE drawCard
  ELSE LET playable == playableCards(computerHand)
       IN IF Len(playable) > 0
          THEN \* playableCards.sort: when playable is the hand itself, the
               \* hand is sorted in place
               computerCommit(<<SortByValueSuit(playable)[1]>>,
                              IF roundReset \/ Len(getLastPlayedCards) = 0
                              THEN SortByValueSuit(computerHand)
                              ELSE computerHand,
                              FALSE, FALSE)
          ELSE drawCard

ComputerPlay ==
  /\ gameStarted
  /\ timer
  /\ computerPlay
  /\ UNCHANGED <<rulesVars, strategyVars>>

Next ==
  \/ StartGame
  \/ SelectCard
  \/ DeselectCard
  \/ PlaySelectedCards
  \/ DrawCard
  \/ ComputerPlay

Spec == Init /\ [][Next]_vars

(***************************************************************************)
(* startGame called from any state: the games of one deal, replayed.       *)
(***************************************************************************)
\* how many wins are counted before no further game is started
MaxReplayGames == 2

\* the shuffles createDeck returns in the replayed games
ReplayDeals == {ShuffleA}

\* who Math.random lets move first in the replayed games
ReplayFirst == {"computer"}

\* startGame, which playAgain calls as well, as the context value exports it
StartGameFromAnyState ==
  /\ playerWins + computerWins < MaxReplayGames
  /\ \E shuffled \in ReplayDeals : \E first \in ReplayFirst :
       startGame(shuffled, first)
  /\ UNCHANGED <<rulesVars, strategyVars>>

ReplayNext ==
  \/ StartGameFromAnyState
  \/ SelectCard
  \/ DeselectCard
  \/ PlaySelectedCards
  \/ DrawCard
  \/ ComputerPlay

ReplaySpec == Init /\ [][ReplayNext]_vars

(***************************************************************************)
(* Staging by drag and drop: PlayArea.tsx hands the dropped card to          *)
(* onPlayCard, which is handlePlayCard of Game.tsx and so selectCard.        *)
(***************************************************************************)
\* DraggableCard.tsx: canDrag is !disabled, and Game.tsx disables the hand
\* when it is not the human's turn or a winner is recorded
canDrag ==
  /\ currentPlayer = "player"
  /\ winner = NoWinner

\* PlayArea.tsx: useDrop is given a factory and no dependency list, so the
\* drop handler that runs is either the one built when the play area was
\* mounted, whose selectCard saw the empty selection, or the one of the
\* current render
DropCard ==
  /\ gameStarted
  /\ canDrag
  /\ \E card \in playerHand : \E renderSelected \in {<<>>, selectedCards} :
       selectCardOfRender(card, renderSelected)
  /\ UNCHANGED <<rulesVars, strategyVars>>

DragNext == StartGame \/ SelectCard \/ DeselectCard \/ DropCard

DragSpec == Init /\ [][DragNext]_vars

(***************************************************************************)
(* The rules module GameRules.ts: classification and comparison of hands.  *)
(* Its functions share names with the helpers of GameContext.tsx above, so *)
(* they carry the module's name here.                                      *)
(***************************************************************************)
\* Array.prototype.sort((a, b) => a - b) of a set of numbers
SortedRanks(S) ==
  With(S, LAMBDA ranks :
    [k \in 1..Cardinality(ranks) |->
       CHOOSE v \in ranks : Cardinality({w \in ranks : w < v}) = k - 1] \o <<>>)

\* Array.from(new Set(cards.map(rank))).sort(...)
GameRules_uniqueRanks(cards) == SortedRanks({cardValues(cards[i]) : i \in 1..Len(cards)})

GameRules_isAceLow(uniqueRanks) ==
  /\ Len(uniqueRanks) = 5
  /\ uniqueRanks[1] = 2
  /\ uniqueRanks[2] = 3
  /\ uniqueRanks[3] = 4
  /\ uniqueRanks[4] = 5
  /\ uniqueRanks[5] = AceValue

\* a variant that takes any five ranks for a straight
GameRules_isValidStraightAnyRanks(cards) == Len(cards) = 5

GameRules_isValidStraight(cards) ==
  IF Len(cards) # 5 THEN FALSE
  ELSE LET uniqueRanks == GameRules_uniqueRanks(cards)
           isConsecutive ==
             \A i \in 2..Len(uniqueRanks) : uniqueRanks[i] = uniqueRanks[i - 1] + 1
       IN IF Len(uniqueRanks) < 5
          THEN GameRules_isAceLow(uniqueRanks)
          ELSE isConsecutive \/ GameRules_isAceLow(uniqueRanks)

\* a variant that counts a rank held three or more times
GameRules_isValidTriplePlusTwoOrMore(cards) ==
  /\ Len(cards) = 5
  /\ \E i \in 1..Len(cards) : CountOfValue(cards, cardValues(cards[i])) >= 3

GameRules_isValidTriplePlusTwo(cards) ==
  /\ Len(cards) = 5
  /\ \E i \in 1..Len(cards) : CountOfValue(cards, cardValues(cards[i])) = 3

\* the first card after sorting by value, then suit, both descending
GameRules_getHighestSuitInStraight(cards) ==
  LET top == CHOOSE c \in Range(cards) : \A d \in Range(cards) : d = c \/ CardLess(d, c)
  IN suitValues(top)

\* the inner getTripleValue of compareFiveCardCombinations
GameRules_getTripleValue(cards) ==
  LET triples == {v \in {cardValues(c) : c \in Range(cards)} : CountOfValue(cards, v) = 3}
  IN IF triples = {} THEN 0 ELSE CHOOSE v \in triples : \A w \in triples : v <= w

\* a field the returned object leaves undefined is 0 here
GameRules_getPlayInfo(cards) ==
  With(SortByValueSuit(cards), LAMBDA sortedCards :
  LET n == Len(sortedCards)
      highestCard == sortedCards[n]
      highestRankValue == cardValues(highestCard)
      highestSuitValue == suitValues(highestCard)
  IN IF n = 0 THEN NoPlay
     ELSE IF n = 1
       THEN [type |-> "single", cards |-> sortedCards, rankValue |-> highestRankValue,
             highestSuitValue |-> highestSuitValue]
     ELSE IF n = 2
       THEN IF cardValues(sortedCards[1]) = cardValues(sortedCards[2])
            THEN [type |-> "pair", cards |-> sortedCards, rankValue |-> highestRankValue,
                  highestSuitValue |-> MaxSuit(sortedCards[1], sortedCards[2])]
            ELSE NoPlay
     ELSE IF n = 3
       THEN IF /\ cardValues(sortedCards[1]) = cardValues(sortedCards[2])
               /\ cardValues(sortedCards[2]) = cardValues(sortedCards[3])
            THEN [type |-> "triple", cards |-> sortedCards, rankValue |-> highestRankValue,
                  highestSuitValue |-> 0]
            ELSE NoPlay
     ELSE IF n = 5
       THEN IF GameRules_isValidStraight(sortedCards)
            THEN [type |-> "straight", cards |-> sortedCards,
                  rankValue |-> IF GameRules_isAceLow(GameRules_uniqueRanks(sortedCards))
                                THEN 5 ELSE highestRankValue,
                  highestSuitValue |-> GameRules_getHighestSuitInStraight(sortedCards)]
            ELSE IF GameRules_isValidTriplePlusTwo(sortedCards)
            THEN [type |-> "fullhouse", cards |-> sortedCards,
                  rankValue |-> GameRules_getTripleValue(sortedCards),
                  highestSuitValue |-> 0]
            ELSE NoPlay
     ELSE NoPlay)

\* a variant that lets a triple-plus-two answer a straight
GameRules_compareFiveCardCombinationsByTriple(newCards, lastCards) ==
  GameRules_getTripleValue(newCards) > GameRules_getTripleValue(lastCards)

\* a variant that lets the highest card decide between two hands
GameRules_compareFiveCardCombinationsByHighCard(newCards, lastCards) ==
  MaxValue(newCards) > MaxValue(lastCards)

GameRules_compareFiveCardCombinations(newCards, lastCards) ==
  LET isNewStraight == GameRules_isValidStraight(newCards)
      isLastStraight == GameRules_isValidStraight(lastCards)
      newHighest == MaxValue(newCards)
      lastHighest == MaxValue(lastCards)
  IN IF isNewStraight /\ ~isLastStraight THEN TRUE
     ELSE IF ~isNewStraight /\ isLastStraight THEN FALSE
     ELSE IF isNewStraight /\ isLastStraight
       THEN IF newHighest > lastHighest THEN TRUE
            ELSE IF newHighest < lastHighest THEN FALSE
            ELSE GameRules_getHighestSuitInStraight(newCards)
                   > GameRules_getHighestSuitInStraight(lastCards)
     ELSE GameRules_getTripleValue(newCards) > GameRules_getTripleValue(lastCards)

\* a variant without the suit tie-break
GameRules_isValidMoveRankOnly(new, last) ==
  Len(new) = Len(last) /\ MaxValue(new) > MaxValue(last)

\* a variant for which an equal rank is enough
GameRules_isValidMoveAnySuit(new, last) ==
  Len(new) = Len(last) /\ MaxValue(new) >= MaxValue(last)

GameRules_isValidMove(new, last) ==
  IF Len(new) = 0 \/ Len(last) = 0 THEN FALSE
  ELSE IF Len(new) = 1 /\ Len(last) = 1
    THEN LET newValue == cardValues(new[1])
             lastValue == cardValues(last[1])
         IN IF newValue > lastValue THEN TRUE
            ELSE IF newValue = lastValue
              THEN suitValues(new[1]) > suitValues(last[1])
            ELSE FALSE
  ELSE IF Len(new) = 2 /\ Len(last) = 2
    THEN IF \/ cardValues(new[1]) # cardValues(new[2])
            \/ cardValues(last[1]) # cardValues(last[2])
         THEN FALSE
         ELSE LET newValue == cardValues(new[1])
                  lastValue == cardValues(last[1])
              IN IF newValue > lastValue THEN TRUE
                 ELSE IF newValue = lastValue
                   THEN MaxSuit(new[1], new[2]) > MaxSuit(last[1], last[2])
                 ELSE FALSE
  ELSE IF Len(new) = 5 /\ Len(last) = 5
    THEN GameRules_compareFiveCardCombinations(new, last)
  ELSE FALSE

(***************************************************************************)
(* The calls of the rules module, over every two hands of a small deck.    *)
(***************************************************************************)
\* the cards hands are made of, in the order they lie in a hand: the ranks
\* of the straights A-2-3-4-5 and 2-3-4-5-6 with three 3s, then two more 5s,
\* the fourth 3 and a king
RuleCards ==
  << Card(AceValue, Spade), Card(3, Diamond), Card(2, Spade), Card(6, Spade),
     Card(3, Spade), Card(4, Spade), Card(5, Spade), Card(3, Club),
     Card(5, Diamond), Card(3, Heart), Card(5, Club), Card(13, Spade) >>

\* how many of RuleCards the hand newCards is drawn from
RuleDeckSize == 11

\* how many of RuleCards the hand lastCards is drawn from
LastDeckSize == 8

\* the sizes of the hands the comparators answer for
RuleHandSizes == {1, 2, 5}

\* the hand lying at the positions S of RuleCards, in that order
RECURSIVE HandAt(_)
HandAt(S) ==
  IF S = {} THEN <<>>
  ELSE LET first == CHOOSE i \in S : \A j \in S : i <= j
       IN <<RuleCards[first]>> \o HandAt(S \ {first})

\* the hands of the first n cards of RuleCards
RuleHands(n) == {HandAt(S) : S \in {T \in SUBSET (1..n) : Cardinality(T) \in RuleHandSizes}}

RulesInit ==
  /\ GameInit
  /\ newHand \in RuleHands(RuleDeckSize)
  /\ lastHand \in RuleHands(LastDeckSize)
  /\ classified = NotCalled
  /\ compared = NotCalled
  /\ aiHand = <<>>
  /\ aiLastPlay = NoPlay
  /\ aiGameState = NoGameState
  /\ aiChosen = NotCalled

\* getPlayInfo, isValidStraight and isValidTriplePlusTwo called on newHand,
\* and the isValidStraight of GameContext.tsx, the one Game.tsx imports
Classify ==
  /\ ~classified.called
  /\ ~compared.called
  /\ classified' = [called |-> TRUE,
                    play |-> GameRules_getPlayInfo(newHand),
                    straight |-> GameRules_isValidStraight(newHand),
                    triplePlusTwo |-> GameRules_isValidTriplePlusTwo(newHand),
                    contextStraight |-> isValidStraight(newHand)]
  /\ UNCHANGED <<newHand, lastHand, compared>>
  /\ UNCHANGED <<gameVars, strategyVars>>

\* isValidMove and compareFiveCardCombinations called on the two hands, both ways
Compare ==
  /\ ~classified.called
  /\ ~compared.called
  /\ compared' = [called |-> TRUE,
                  move |-> GameRules_isValidMove(newHand, lastHand),
                  moveBack |-> GameRules_isValidMove(lastHand, newHand),
                  five |-> GameRules_compareFiveCardCombinations(newHand, lastHand),
                  fiveBack |-> GameRules_compareFiveCardCombinations(lastHand, newHand)]
  /\ UNCHANGED <<newHand, lastHand, classified>>
  /\ UNCHANGED <<gameVars, strategyVars>>

RulesNext == Classify \/ Compare

RulesSpec == RulesInit /\ [][RulesNext]_vars

\* how many of RuleCards the hands of any size are drawn from
AnySizeDeckSize == 8

\* the largest hand getPlayInfo is called on
MaxAnySize == 6

\* the hands of every size up to MaxAnySize, the empty hand included
AnySizeHands ==
  {HandAt(S) : S \in {T \in SUBSET (1..AnySizeDeckSize) : Cardinality(T) <= MaxAnySize}}

AnySizeInit ==
  /\ GameInit
  /\ newHand \in AnySizeHands
  /\ lastHand = <<>>
  /\ classified = NotCalled
  /\ compared = NotCalled
  /\ aiHand = <<>>
  /\ aiLastPlay = NoPlay
  /\ aiGameState = NoGameState
  /\ aiChosen = NotCalled

AnySizeNext == Classify

AnySizeSpec == AnySizeInit /\ [][AnySizeNext]_vars

(***************************************************************************)
(* The AI strategy: chooseBestPlay and findPlaysOfType, with sortCards of  *)
(* lib/utils.ts.                                                           *)
(***************************************************************************)
\* cards.sort by rank, then suit: each card goes behind the cards below it
sortCards(cards) ==
  With(cards, LAMBDA c :
    [k \in 1..Len(c) |->
       c[CHOOSE i \in 1..Len(c) :
           Cardinality({j \in 1..Len(c) : CardLess(c[j], c[i])}) = k - 1]] \o <<>>)

\* the arrays of an array of arrays, one after the other
RECURSIVE FlattenFirst(_, _)
FlattenFirst(ss, n) == IF n = 0 THEN <<>> ELSE FlattenFirst(ss, n - 1) \o ss[n]
Flatten(ss) == With(ss, LAMBDA s : FlattenFirst(s, Len(s)))

\* if (playInfo) plays.push(playInfo), over the results of a loop
Pushed(infos) == SelectSeq(infos, LAMBDA playInfo : playInfo.type # "null")

\* valueGroups[value]: the cards of one value, in the order of the sorted hand
valueGroup(sortedHand, v) == SelectSeq(sortedHand, LAMBDA c : cardValues(c) = v)

findSingles(sortedHand) ==
  Pushed([i \in 1..Len(sortedHand) |-> GameRules_getPlayInfo(<<sortedHand[i]>>)])

\* the loops over i < j of one group
pairsOfGroup(group) ==
  Flatten([i \in 1..Len(group) |->
            [d \in 1..(Len(group) - i) |-> GameRules_getPlayInfo(<<group[i], group[i + d]>>)]])

\* Object.values(valueGroups) lists the groups by ascending value
findPairs(sortedHand) ==
  LET values == GameRules_uniqueRanks(sortedHand)
  IN Pushed(Flatten([k \in 1..Len(values) |->
                      LET group == valueGroup(sortedHand, values[k])
                      IN IF Len(group) >= 2 THEN pairsOfGroup(group) ELSE <<>>]))

\* for each rank of the sequence, the card of that rank with the highest suit
straightCards(sortedHand, sequence) ==
  [k \in 1..Len(sequence) |->
     LET cardsOfRank == valueGroup(sortedHand, sequence[k])
     IN cardsOfRank[Len(cardsOfRank)]]

\* the loop over the windows of five unique ranks
windowStraights(sortedHand) ==
  LET uniqueRanks == GameRules_uniqueRanks(sortedHand)
  IN IF Len(uniqueRanks) >= 5
     THEN Flatten([i \in 1..(Len(uniqueRanks) - 4) |->
            LET potentialSequence == SubSeq(uniqueRanks, i, i + 4)
                isConsecutive ==
                  \A j \in 2..5 : potentialSequence[j] = potentialSequence[j - 1] + 1
                isAceLow == potentialSequence = <<2, 3, 4, 5, AceValue>>
                playInfo == GameRules_getPlayInfo(straightCards(sortedHand, potentialSequence))
            IN IF (isConsecutive \/ isAceLow) /\ playInfo.type = "straight"
               THEN <<playInfo>> ELSE <<>>])
     ELSE <<>>

\* the A-2-3-4-5 block, which adds its straight unless plays holds these cards
aceLowStraight(sortedHand, plays) ==
  LET uniqueRanks == GameRules_uniqueRanks(sortedHand)
      aceLowSequence == <<AceValue, 2, 3, 4, 5>>
  IN IF Len(uniqueRanks) >= 5 /\ Range(aceLowSequence) \subseteq Range(uniqueRanks)
     THEN LET cards == straightCards(sortedHand, aceLowSequence)
              playInfo == GameRules_getPlayInfo(cards)
          IN IF /\ playInfo.type = "straight"
                /\ ~\E k \in 1..Len(plays) : Range(plays[k].cards) = Range(cards)
             THEN <<playInfo>> ELSE <<>>
     ELSE <<>>

\* the loops over i < j < k of one group: a triple and the two lowest other cards
housesOfGroup(sortedHand, group) ==
  LET n == Len(group)
      house(i, j, k) ==
        LET tripleCards == <<group[i], group[j], group[k]>>
            remainingHand == SelectSeq(sortedHand, LAMBDA c : c \notin Range(tripleCards))
            sortedRemaining == SortByValue(remainingHand)
        IN IF Len(sortedRemaining) >= 2
           THEN LET playInfo ==
                      GameRules_getPlayInfo(tripleCards \o SubSeq(sortedRemaining, 1, 2))
                IN IF playInfo.type = "fullhouse" THEN <<playInfo>> ELSE <<>>
           ELSE <<>>
  IN Flatten([i \in 1..(n - 2) |->
       Flatten([dj \in 1..(n - 1 - i) |->
         Flatten([dk \in 1..(n - i - dj) |-> house(i, i + dj, i + dj + dk)])])])

findHouses(sortedHand) ==
  LET values == GameRules_uniqueRanks(sortedHand)
  IN Flatten([k \in 1..Len(values) |->
               LET group == valueGroup(sortedHand, values[k])
               IN IF Len(group) >= 3 THEN housesOfGroup(sortedHand, group) ELSE <<>>])

findPlaysOfType(hand, type) ==
  With(sortCards(hand), LAMBDA sortedHand :
  LET singles == IF type \in {"single", "any"} THEN findSingles(sortedHand) ELSE <<>>
      pairs == IF type \in {"pair", "any"} THEN findPairs(sortedHand) ELSE <<>>
      windows == windowStraights(sortedHand)
      straights ==
        IF type \in {"straight", "any"}
        THEN windows \o aceLowStraight(sortedHand, singles \o pairs \o windows)
        ELSE <<>>
      houses == IF type \in {"fullhouse", "any"} THEN findHouses(sortedHand) ELSE <<>>
  IN singles \o pairs \o straights \o houses)

\* opponentCards <= 3: the opponent is close to winning
CloseToWinning == 3
\* opponentCards <= 5: the opponent may be played against defensively
Threatening == 5

typeOrder(type) ==
  CASE type = "straight" -> 1
    [] type = "fullhouse" -> 1
    [] type = "pair" -> 2
    [] type = "single" -> 3
    [] OTHER -> 99

\* the comparator of possiblePlays.sort: negative when a goes first
comparePlays(a, b) ==
  LET typeDiff == typeOrder(a.type) - typeOrder(b.type)
      rankDiff == a.rankValue - b.rankValue
  IN IF typeDiff # 0 THEN typeDiff
     ELSE IF rankDiff # 0 THEN rankDiff
     ELSE a.highestSuitValue - b.highestSuitValue

\* Array.prototype.sort is stable: a play goes behind the plays the comparator
\* puts before it and behind the equal plays that were found before it
SortPlays(plays) ==
  With(plays, LAMBDA p :
    With([i \in 1..Len(p) |->
            Cardinality({j \in 1..Len(p) :
                           \/ comparePlays(p[j], p[i]) < 0
                           \/ comparePlays(p[j], p[i]) = 0 /\ j < i})] \o <<>>,
         LAMBDA before :
           [k \in 1..Len(p) |-> p[CHOOSE i \in 1..Len(p) : before[i] = k - 1]] \o <<>>))

\* a variant that keeps the plays that do not beat lastPlay as well
possiblePlaysUnfiltered(hand, last, gameState) ==
  LET isGameStart == last = NoPlay /\ (gameState.isNull \/ gameState.playAreaLength = 0)
      isLeading == last = NoPlay
  IN SortPlays(
       IF isGameStart THEN findPlaysOfType(hand, "single")
       ELSE IF isLeading THEN findPlaysOfType(hand, "any")
       ELSE findPlaysOfType(hand, last.type))

\* possiblePlays of chooseBestPlay after the initial sort
possiblePlays(hand, last, gameState) ==
  LET isGameStart == last = NoPlay /\ (gameState.isNull \/ gameState.playAreaLength = 0)
      isLeading == last = NoPlay
  IN SortPlays(
       IF isGameStart THEN findPlaysOfType(hand, "single")
       ELSE IF isLeading THEN findPlaysOfType(hand, "any")
       ELSE SelectSeq(findPlaysOfType(hand, last.type),
                      LAMBDA play : GameRules_isValidMove(play.cards, last.cards)))

\* variants that always return the weakest, and always the strongest, play
chooseBestPlayLowest(hand, last, gameState, random) ==
  With(possiblePlays(hand, last, gameState), LAMBDA plays :
    IF Len(plays) = 0 THEN NoPlay ELSE plays[1])

chooseBestPlayHighest(hand, last, gameState, random) ==
  With(possiblePlays(hand, last, gameState), LAMBDA plays :
    IF Len(plays) = 0 THEN NoPlay ELSE plays[Len(plays)])

\* a variant that answers a draw of Math.random with the strongest play
chooseBestPlayLastOnDraw(hand, last, gameState, random) ==
  With(possiblePlays(hand, last, gameState), LAMBDA plays :
    IF Len(plays) = 0 THEN NoPlay
    ELSE IF gameState.opponentCardCount # Undefined
            /\ gameState.opponentCardCount <= Threatening
            /\ (random \/ gameState.opponentCardCount <= CloseToWinning)
      THEN plays[Len(plays)]
    ELSE plays[1])

\* random: Math.random() >= 0.5
chooseBestPlay(hand, last, gameState, random) ==
  With(possiblePlays(hand, last, gameState), LAMBDA plays :
    LET opponentCards == gameState.opponentCardCount
    IN IF Len(plays) = 0 THEN NoPlay
       ELSE IF opponentCards # Undefined /\ opponentCards <= CloseToWinning
         THEN plays[Len(plays)]
       ELSE IF opponentCards # Undefined /\ opponentCards <= Threatening /\ random
         THEN IF Len(plays) >= 2 THEN plays[Len(plays) - 1] ELSE plays[Len(plays)]
       ELSE plays[1])

(***************************************************************************)
(* The calls of chooseBestPlay, over the hands of a small deck.            *)
(***************************************************************************)
\* the cards the AI's hand is made of: the straight A-2-3-4-5 and four 3s,
\* then the 6 of the straight 2-3-4-5-6
StrategyCards ==
  << Card(AceValue, Spade), Card(3, Diamond), Card(2, Spade), Card(3, Heart),
     Card(3, Spade), Card(4, Spade), Card(5, Spade), Card(3, Club),
     Card(6, Spade) >>

\* how many of StrategyCards the hand is drawn from
StrategyDeckSize == 8

\* the cards lastPlay is made of: three 2s and the straight 4-5-6-7-8
LastPlayCards ==
  << Card(2, Club), Card(2, Diamond), Card(2, Heart), Card(4, Club),
     Card(5, Club), Card(6, Club), Card(7, Club), Card(8, Club) >>

\* the highest opponentCardCount passed
MaxOpponentCards == 6

RECURSIVE CardsAt(_, _)
CardsAt(cards, S) ==
  IF S = {} THEN <<>>
  ELSE LET first == CHOOSE i \in S : \A j \in S : i <= j
       IN <<cards[first]>> \o CardsAt(cards, S \ {first})

StrategyHands == {CardsAt(StrategyCards, S) : S \in SUBSET (1..StrategyDeckSize)}

\* null, or a play getPlayInfo knows among the hands of LastPlayCards
LastPlays ==
  {NoPlay} \cup
  {GameRules_getPlayInfo(CardsAt(LastPlayCards, S)) :
     S \in {T \in SUBSET (1..Len(LastPlayCards)) : Cardinality(T) \in RuleHandSizes}}

GameStates ==
  {NoGameState} \cup
  [isNull : {FALSE}, playAreaLength : {0, 1},
   opponentCardCount : {Undefined} \cup (CloseToWinning..MaxOpponentCards)]

StrategyInit ==
  /\ GameInit
  /\ newHand = <<>>
  /\ lastHand = <<>>
  /\ classified = NotCalled
  /\ compared = NotCalled
  /\ aiHand \in StrategyHands
  /\ aiLastPlay \in LastPlays
  /\ aiGameState \in GameStates
  \* a play lies on the table when there is a play to answer
  /\ aiLastPlay # NoPlay => aiGameState.playAreaLength # 0
  /\ aiChosen = NotCalled

\* one call of chooseBestPlay; Math.random is read only for a threatening
\* opponent, and its draw is FALSE here when it is not read for another one
ChooseBestPlay ==
  /\ ~aiChosen.called
  /\ \E random \in BOOLEAN :
       /\ random =>
            /\ aiGameState.opponentCardCount > CloseToWinning
            /\ aiGameState.opponentCardCount <= Threatening
       /\ aiChosen' = [called |-> TRUE,
                       play |-> chooseBestPlay(aiHand, aiLastPlay, aiGameState, random),
                       random |-> random]
  /\ UNCHANGED <<aiHand, aiLastPlay, aiGameState>>
  /\ UNCHANGED <<gameVars, rulesVars>>

StrategyNext == ChooseBestPlay

StrategySpec == StrategyInit /\ [][StrategyNext]_vars

(***************************************************************************)
(* Properties.                                                             *)
(***************************************************************************)
\* the cards a place holds, as a bag would count them
PlacesCount ==
  Len(deck) + Cardinality(playerHand) + Len(computerHand) + Len(playArea)

\* C1, as stated: in a started game every card is in exactly one of the
\* deck, the player's hand, the computer's hand and the table history.
CardsInFourPlaces ==
  gameStarted =>
    /\ Range(deck) \cup playerHand \cup Range(computerHand) \cup Range(playArea)
         = dealt
    /\ PlacesCount = Cardinality(dealt)

\* C1, amended: in a started game every card is in exactly one of the deck,
\* the player's hand, the selection (staging area), the computer's hand and
\* the table history: no card is duplicated and none is lost.
CardsInExactlyOnePlace ==
  gameStarted =>
    /\ Range(deck) \cup playerHand \cup Range(selectedCards)
         \cup Range(computerHand) \cup Range(playArea) = dealt
    /\ PlacesCount + Len(selectedCards) = Cardinality(dealt)

\* C1 witness: cards are staged while the deck has been drawn from and both
\* sides have played
CardsInExactlyOnePlaceWitness ==
  /\ gameStarted
  /\ Len(selectedCards) = 2
  /\ Len(deck) = 0
  /\ Len(playArea) >= 2

\* C2: a rejected play attempt returns the staged cards to the hand and
\* changes nothing else: table, turn, deck, round flags and winner stay, and
\* the same player is still to move.
RejectionChangesNothing ==
  [][rejected' =>
       /\ playerHand' = playerHand \cup Range(selectedCards)
       /\ selectedCards' = <<>>
       /\ playArea' = playArea
       /\ computerHand' = computerHand
       /\ currentPlayer' = currentPlayer
       /\ currentPlayer' = "player"
       /\ deck' = deck
       /\ deckSize' = deckSize
       /\ lastMoveWasDouble' = lastMoveWasDouble
       /\ lastMoveWasFiveCard' = lastMoveWasFiveCard
       /\ roundReset' = roundReset
       /\ winner' = winner
       /\ winner' = NoWinner]_vars

\* C2 witness: an attempt was just rejected in the middle of a game
RejectionChangesNothingWitness ==
  /\ rejected
  /\ Len(playArea) >= 2
  /\ lastMoveWasDouble

\* C3: the first cards placed on the empty table of a game are exactly one
\* card, whoever moves first and whether or not a draw came before.
FirstPlayIsSingle ==
  [][(gameStarted /\ Len(playArea) = 0 /\ Len(playArea') > 0)
       => Len(playArea') = 1]_vars

\* C3 witness: the first card was played after the human had drawn
FirstPlayIsSingleWitness ==
  /\ gameStarted
  /\ Len(playArea) = 1
  /\ Cardinality(playerHand) + Len(selectedCards) = HandSize + 1

\* the cards the step has appended to the table history
Appended == SubSeq(playArea', Len(playArea) + 1, Len(playArea'))

AcceptedPlayBeatsIncumbent ==
  [][(lastPlay # <<>> /\ ~sinceDraw
        /\ Len(Appended) = Len(lastPlay)
        /\ Len(playArea) >= Len(lastPlay))
       => beatsLastPlayed(Appended, LastN(playArea, Len(lastPlay)))]_vars

\* C5 witness: a five-card play has been answered by a five-card play
AcceptedPlayBeatsIncumbentWitness ==
  /\ Len(lastPlay) = 5
  /\ ~sinceDraw
  /\ Len(playArea) >= 10
  /\ isValidStraight(SubSeq(playArea, Len(playArea) - 9, Len(playArea) - 5))
  /\ ~isValidStraight(lastPlay)

isLegalHand(cards) ==
  \/ Len(cards) = 1
  \/ Len(cards) = 2 /\ cardValues(cards[1]) = cardValues(cards[2])
  \/ isValidStraight(cards)
  \/ isValidTriplePlusTwo(cards)

DrawOnEmptyDeckPasses ==
  [][(gameStarted /\ winner = NoWinner /\ timer /\ ~timer'
        /\ deckSize = 0 /\ playArea' = playArea)
       => /\ currentPlayer' = "player"
          /\ roundReset'
          /\ deckSize' = 0
          /\ computerHand' = computerHand
          /\ playerHand' = playerHand]_vars

\* C8: the game is never in a non-terminal state where the computer is to
\* move and has no enabled action: while it is the computer's turn and there
\* is no winner, the computerPlay that ends the turn is pending (ComputerPlay
\* is enabled exactly when the game has started and the timeout is pending).
ComputerToMoveCanAct ==
  (gameStarted /\ winner = NoWinner /\ currentPlayer = "computer") => timer

\* C9: a play that leaves the acting side with no cards records that side,
\* and no other, as the winner at once.
EmptyingPlayRecordsWinner ==
  [][Len(playArea') > Len(playArea) =>
       /\ (currentPlayer = "player" /\ playerHand' = {} /\ selectedCards' = <<>>)
            => winner' = "player"
       /\ (currentPlayer = "computer" /\ computerHand' = <<>>)
            => winner' = "computer"]_vars

\* C10: once a winner is recorded, until a new game is started nothing
\* changes the cards either side holds, the table history, the deck or
\* currentPlayer.
NothingChangesAfterWinner ==
  [][(winner # NoWinner /\ winner' # NoWinner) =>
       /\ playerHand' \cup Range(selectedCards') = playerHand \cup Range(selectedCards)
       /\ computerHand' = computerHand
       /\ playArea' = playArea
       /\ deck' = deck
       /\ currentPlayer' = currentPlayer]_vars

\* the cards the human holds: the hand and the selection
PlayerCards == playerHand \cup Range(selectedCards)

\* C11: a side plays or draws only when currentPlayer names it and there is
\* no winner: cards leave or enter the computer's hand only on the computer's
\* turn, the human's cards only on the human's turn, and neither once a
\* winner is recorded (a new deal apart).
OnlySideToMoveActs ==
  [][(gameStarted /\ ~(winner # NoWinner /\ winner' = NoWinner)) =>
       /\ Len(computerHand') # Len(computerHand)
            => (currentPlayer = "computer" /\ winner = NoWinner)
       /\ PlayerCards' # PlayerCards
            => (currentPlayer = "player" /\ winner = NoWinner)]_vars

RanksOf(cards) == {cardValues(c) : c \in Range(cards)}
RanksHeld(cards, n) == {v \in RanksOf(cards) : CountOfValue(cards, v) = n}

\* five distinct consecutive ranks with the ace high, or exactly 2, 3, 4, 5, A
IsLowAceRun(cards) == Len(cards) = 5 /\ RanksOf(cards) = {2, 3, 4, 5, AceValue}
IsConsecutiveRun(cards) ==
  /\ Len(cards) = 5
  /\ \E low \in LowestValue..TenValue : RanksOf(cards) = low..(low + 4)
IsStraightRanks(cards) == IsConsecutiveRun(cards) \/ IsLowAceRun(cards)

\* exactly one rank is held exactly three times
IsTripleRanks(cards) == Len(cards) = 5 /\ Cardinality(RanksHeld(cards, 3)) = 1

\* C13: for every 5-card set, isValidStraight is true exactly when the ranks
\* are five distinct consecutive values (ace high) or exactly 2, 3, 4, 5, A;
\* stated of the isValidStraight of GameRules.ts and of the one the game
\* validates plays with.
StraightIffRun ==
  (classified.called /\ Len(newHand) = 5) =>
     /\ classified.straight <=> IsStraightRanks(newHand)
     /\ classified.contextStraight <=> IsStraightRanks(newHand)

\* C14: the straight A-2-3-4-5 ranks as 5-high in classification and in
\* comparison: every straight that is 6-high or higher beats it, and it
\* beats none of them.
LowAceStraightIsFiveHigh ==
  /\ (classified.called /\ IsLowAceRun(newHand)) =>
        (classified.play.type = "straight" /\ classified.play.rankValue = 5)
  /\ (compared.called /\ IsLowAceRun(newHand) /\ IsConsecutiveRun(lastHand)) =>
        (~compared.five /\ compared.fiveBack /\ ~compared.move /\ compared.moveBack)
  /\ (compared.called /\ IsConsecutiveRun(newHand) /\ IsLowAceRun(lastHand)) =>
        (compared.five /\ ~compared.fiveBack /\ compared.move /\ ~compared.moveBack)

\* C15: for every 5-card set, isValidTriplePlusTwo is true exactly when
\* exactly one rank is held exactly three times, whatever the other two cards;
\* four of a kind plus one, two pairs plus one and five unrelated cards that
\* form no run are rejected by getPlayInfo.
TriplePlusTwoIffOneTriple ==
  (classified.called /\ Len(newHand) = 5) =>
     /\ classified.triplePlusTwo <=> IsTripleRanks(newHand)
     /\ IsTripleRanks(newHand) => classified.play.type = "fullhouse"
     /\ ( \/ RanksHeld(newHand, 4) # {}
          \/ Cardinality(RanksHeld(newHand, 2)) = 2
          \/ (Cardinality(RanksOf(newHand)) = 5 /\ ~IsStraightRanks(newHand)) )
          => (~classified.triplePlusTwo /\ classified.play = NoPlay)

\* C15 witness: four of a kind plus one card was classified and rejected
TriplePlusTwoIffOneTripleWitness ==
  /\ classified.called
  /\ Len(newHand) = 5
  /\ RanksHeld(newHand, 4) # {}
  /\ classified.play = NoPlay

\* C16: for every 5-card set, the straight predicate and the triple-plus-two
\* predicate are never both true, and getPlayInfo names at most one kind,
\* the one whose predicate holds.
StraightAndTripleExclusive ==
  (classified.called /\ Len(newHand) = 5) =>
     /\ ~(classified.straight /\ classified.triplePlusTwo)
     /\ classified.play.type \in {"straight", "fullhouse", "null"}
     /\ classified.play.type = "straight" =>
          (classified.straight /\ ~classified.triplePlusTwo)
     /\ classified.play.type = "fullhouse" =>
          (classified.triplePlusTwo /\ ~classified.straight)

\* C16 witness: a triple with two side cards was classified as a full house
StraightAndTripleExclusiveWitness ==
  /\ classified.called
  /\ Len(newHand) = 5
  /\ classified.triplePlusTwo
  /\ classified.play.type = "fullhouse"

\* a legal pair, the suit that breaks ties between singles or pairs, and the
\* order the rules give them: rank first, then that suit
IsPair(cards) == Len(cards) = 2 /\ cardValues(cards[1]) = cardValues(cards[2])
TiebreakSuit(cards) ==
  CHOOSE t \in {suitValues(c) : c \in Range(cards)} :
    \A c \in Range(cards) : suitValues(c) <= t
BeatsByRankThenSuit(a, b) ==
  \/ MaxValue(a) > MaxValue(b)
  \/ MaxValue(a) = MaxValue(b) /\ TiebreakSuit(a) > TiebreakSuit(b)
BothSinglesOrPairs(a, b) == (Len(a) = 1 /\ Len(b) = 1) \/ (IsPair(a) /\ IsPair(b))

\* C17: for two singles and for two pairs, isValidMove(new, last) is true
\* exactly when the new rank is greater, or the ranks are equal and the new
\* tiebreak suit (the higher suit of a pair) is greater, with
\* spade < club < diamond < heart.
SinglesAndPairsByRankThenSuit ==
  /\ Spade < Club /\ Club < Diamond /\ Diamond < Heart
  /\ \A suit \in {Spade, Club, Diamond, Heart} : suitValues(Card(LowestValue, suit)) = suit
  /\ (compared.called /\ BothSinglesOrPairs(newHand, lastHand)) =>
        /\ compared.move <=> BeatsByRankThenSuit(newHand, lastHand)
        /\ compared.moveBack <=> BeatsByRankThenSuit(lastHand, newHand)

\* C17 witness: a pair answered a pair of its rank and won on the higher suit
SinglesAndPairsByRankThenSuitWitness ==
  /\ compared.called
  /\ IsPair(newHand)
  /\ IsPair(lastHand)
  /\ MaxValue(newHand) = MaxValue(lastHand)
  /\ compared.move

\* C18: of two singles, or two pairs, of equal rank and different tiebreak
\* suits, exactly one beats the other.
EqualRankExactlyOneWins ==
  ( /\ compared.called
    /\ BothSinglesOrPairs(newHand, lastHand)
    /\ MaxValue(newHand) = MaxValue(lastHand)
    /\ TiebreakSuit(newHand) # TiebreakSuit(lastHand) )
    => (compared.move # compared.moveBack)

\* C18 witness: a single met a single of its rank in a higher suit and lost
EqualRankExactlyOneWinsWitness ==
  /\ compared.called
  /\ Len(newHand) = 1
  /\ Len(lastHand) = 1
  /\ MaxValue(newHand) = MaxValue(lastHand)
  /\ TiebreakSuit(newHand) < TiebreakSuit(lastHand)
  /\ compared.moveBack
  /\ ~compared.move

\* C19: every straight beats every triple-plus-two, and no triple-plus-two
\* beats a straight, whatever their ranks.
StraightBeatsTriplePlusTwo ==
  /\ (compared.called /\ IsStraightRanks(newHand) /\ IsTripleRanks(lastHand)) =>
        (compared.five /\ ~compared.fiveBack)
  /\ (compared.called /\ IsTripleRanks(newHand) /\ IsStraightRanks(lastHand)) =>
        (~compared.five /\ compared.fiveBack)

\* C19 witness: a straight answered a triple-plus-two of a higher top card
StraightBeatsTriplePlusTwoWitness ==
  /\ compared.called
  /\ IsStraightRanks(newHand)
  /\ IsTripleRanks(lastHand)
  /\ MaxValue(newHand) < MaxValue(lastHand)
  /\ compared.five

\* the rank a triple-plus-two holds three times
TripleRank(cards) == CHOOSE v \in RanksHeld(cards, 3) : TRUE

\* C20: between two triple-plus-two hands the challenger wins exactly when
\* its tripled rank is strictly greater, whatever the side cards.
TriplesByTripledRank ==
  (compared.called /\ IsTripleRanks(newHand) /\ IsTripleRanks(lastHand)) =>
     /\ compared.five <=> TripleRank(newHand) > TripleRank(lastHand)
     /\ compared.move <=> TripleRank(newHand) > TripleRank(lastHand)
     /\ compared.fiveBack <=> TripleRank(lastHand) > TripleRank(newHand)

\* C20 witness: the higher triple won against a hand with a higher side card
TriplesByTripledRankWitness ==
  /\ compared.called
  /\ IsTripleRanks(newHand)
  /\ IsTripleRanks(lastHand)
  /\ MaxValue(newHand) < MaxValue(lastHand)
  /\ compared.five

\* C21: a play returned by chooseBestPlay when lastPlay is present is made of
\* distinct cards of the given hand, classifies as a legal hand with as many
\* cards as lastPlay, and passes isValidMove against lastPlay's cards.
ReturnedPlayIsLegalAnswer ==
  (aiChosen.called /\ aiLastPlay # NoPlay /\ aiChosen.play # NoPlay) =>
    /\ Range(aiChosen.play.cards) \subseteq Range(aiHand)
    /\ Cardinality(Range(aiChosen.play.cards)) = Len(aiChosen.play.cards)
    /\ GameRules_getPlayInfo(aiChosen.play.cards).type # "null"
    /\ Len(aiChosen.play.cards) = Len(aiLastPlay.cards)
    /\ GameRules_isValidMove(aiChosen.play.cards, aiLastPlay.cards)

\* C21 witness: a triple-plus-two was returned in answer to a triple-plus-two
ReturnedPlayIsLegalAnswerWitness ==
  /\ aiChosen.called
  /\ aiLastPlay.type = "fullhouse"
  /\ aiChosen.play.type = "fullhouse"

\* the hands of lastPlay's kind the hand can form that beat lastPlay
Answers(hand, last) ==
  {cards \in {CardsAt(hand, S) : S \in SUBSET (1..Len(hand))} :
     /\ Len(cards) = Len(last.cards)
     /\ GameRules_getPlayInfo(cards).type = last.type
     /\ GameRules_isValidMove(cards, last.cards)}

\* C22: chooseBestPlay returns null only when the hand has no answer: when
\* following, no subset of the hand of lastPlay's kind is a legal hand that
\* beats lastPlay; when leading, only when the hand is empty.
NullOnlyWithoutAnswer ==
  (aiChosen.called /\ aiChosen.play = NoPlay) =>
    IF aiLastPlay = NoPlay THEN aiHand = <<>>
    ELSE Answers(aiHand, aiLastPlay) = {}

\* the play is the lowest of the plays in the order of kind priority, then
\* rank, then tiebreak suit
IsWeakest(play, plays) ==
  \A k \in 1..Len(plays) : comparePlays(play, plays[k]) <= 0

\* the play is the highest of the plays in that order
IsStrongest(play, plays) ==
  \A k \in 1..Len(plays) : comparePlays(play, plays[k]) >= 0

NotThreatened ==
  aiGameState.opponentCardCount = Undefined \/ aiGameState.opponentCardCount > Threatening

\* C23: when opponentCardCount is undefined or greater than 5, chooseBestPlay
\* returns the first eligible candidate in ascending order of kind priority,
\* rank and tiebreak suit; when following a single or a pair it is the lowest
\* single or pair of the hand that beats lastPlay.
WeakestWhenNotThreatened ==
  (aiChosen.called /\ NotThreatened) =>
    LET plays == possiblePlays(aiHand, aiLastPlay, aiGameState)
    IN /\ aiChosen.play = NoPlay <=> Len(plays) = 0
       /\ Len(plays) > 0 =>
            /\ aiChosen.play = plays[1]
            /\ IsWeakest(aiChosen.play, plays)
       /\ (aiLastPlay.type \in {"single", "pair"} /\ Len(plays) > 0) =>
            \A cards \in Answers(aiHand, aiLastPlay) :
              \/ MaxValue(cards) > aiChosen.play.rankValue
              \/ /\ MaxValue(cards) = aiChosen.play.rankValue
                 /\ TiebreakSuit(cards) >= aiChosen.play.highestSuitValue

\* C23 witness: the lowest of several pairs that beat the last pair was
\* returned while the opponent holds more than five cards
WeakestWhenNotThreatenedWitness ==
  /\ aiChosen.called
  /\ aiGameState.opponentCardCount > Threatening
  /\ aiLastPlay.type = "pair"
  /\ aiChosen.play.type = "pair"
  /\ Len(possiblePlays(aiHand, aiLastPlay, aiGameState)) >= 2

\* C24: when opponentCardCount is 3 or less and there is an eligible
\* candidate, chooseBestPlay returns the last candidate of the ascending
\* order, the strongest one.
StrongestWhenCloseToWinning ==
  (/\ aiChosen.called
   /\ aiGameState.opponentCardCount # Undefined
   /\ aiGameState.opponentCardCount <= CloseToWinning
   /\ Len(possiblePlays(aiHand, aiLastPlay, aiGameState)) > 0) =>
    LET plays == possiblePlays(aiHand, aiLastPlay, aiGameState)
    IN /\ aiChosen.play = plays[Len(plays)]
       /\ IsStrongest(aiChosen.play, plays)

\* C24 witness: the highest of several singles that beat the last single was
\* returned while the opponent holds three cards
StrongestWhenCloseToWinningWitness ==
  /\ aiChosen.called
  /\ aiGameState.opponentCardCount = CloseToWinning
  /\ aiLastPlay.type = "single"
  /\ aiChosen.play.type = "single"
  /\ Len(possiblePlays(aiHand, aiLastPlay, aiGameState)) >= 3

HandsOfTypes(hand, types) ==
  {playInfo \in {GameRules_getPlayInfo(CardsAt(hand, S)) : S \in SUBSET (1..Len(hand))} :
     playInfo.type \in types}

FiveCardTypes == {"straight", "fullhouse"}

\* the types of the largest kind the hand can form
LeadTypes(hand) ==
  IF HandsOfTypes(hand, FiveCardTypes) # {} THEN FiveCardTypes
  ELSE IF HandsOfTypes(hand, {"pair"}) # {} THEN {"pair"}
  ELSE {"single"}

\* the AI leads after the first move of the game and plays its default
LeadsUndefended ==
  /\ aiChosen.called
  /\ aiLastPlay = NoPlay
  /\ ~aiGameState.isNull
  /\ aiGameState.playAreaLength > 0
  /\ aiHand # <<>>
  /\ \/ NotThreatened
     \/ aiGameState.opponentCardCount > CloseToWinning /\ ~aiChosen.random

\* C26: leading after the game's first move without a defensive override,
\* the AI plays a five-card hand if its hand can form one, otherwise a pair
\* if it can form one, otherwise a single, and of the hands of that kind the
\* one with the lowest rank, then the lowest tiebreak suit.
LeadsLargestKindLowestFirst ==
  LeadsUndefended =>
    /\ aiChosen.play.type \in LeadTypes(aiHand)
    /\ \A playInfo \in HandsOfTypes(aiHand, LeadTypes(aiHand)) :
         \/ aiChosen.play.rankValue < playInfo.rankValue
         \/ /\ aiChosen.play.rankValue = playInfo.rankValue
            /\ aiChosen.play.highestSuitValue <= playInfo.highestSuitValue

\* C27: following a five-card play the AI considers straights and
\* triple-plus-two hands alike: when lastPlay is a triple-plus-two and the
\* hand contains a straight, chooseBestPlay returns a play, not null.
StraightAnswersTriplePlusTwo ==
  (/\ aiChosen.called
   /\ aiLastPlay.type = "fullhouse"
   /\ HandsOfTypes(aiHand, {"straight"}) # {}) =>
    aiChosen.play # NoPlay

\* a step of a started game that puts cards on the table
SuccessfulPlay == gameStarted /\ gameStarted' /\ Len(playArea') > Len(playArea)

\* the cards the human holds: the hand and the staging area
HumanHoldings == playerHand \cup Range(selectedCards)

\* C28: a successful play of cards C by the side to move removes exactly C
\* from that side's holdings, appends exactly C to the end of the table
\* history, flips currentPlayer, clears the round-open flag and sets the
\* requirement to the cardinality of C; the other side's hand and the deck
\* are unchanged.
PlayMovesExactlyItsCards ==
  [][SuccessfulPlay =>
       /\ playArea' = playArea \o Appended
       /\ Cardinality(Range(Appended)) = Len(Appended)
       /\ IF currentPlayer = "player"
          THEN /\ Range(Appended) \subseteq HumanHoldings
               /\ HumanHoldings' = HumanHoldings \ Range(Appended)
               /\ computerHand' = computerHand
          ELSE /\ Range(Appended) \subseteq Range(computerHand)
               /\ Range(computerHand') = Range(computerHand) \ Range(Appended)
               /\ Len(computerHand') = Len(computerHand) - Len(Appended)
               /\ playerHand' = playerHand
               /\ selectedCards' = selectedCards
       /\ currentPlayer' # currentPlayer
       /\ roundReset' = FALSE
       /\ lastMoveWasDouble' = (Len(Appended) = 2)
       /\ lastMoveWasFiveCard' = (Len(Appended) = 5)
       /\ deck' = deck
       /\ deckSize' = deckSize]_vars

\* C28 witness: both sides have played, the computer last with two cards
\* or more
PlayMovesExactlyItsCardsWitness ==
  /\ gameStarted
  /\ currentPlayer = "player"
  /\ Len(lastPlay) >= 2
  /\ ~sinceDraw
  /\ Len(playArea) > Len(lastPlay)

\* a step of a started game that takes a card from the deck
DrawStep == gameStarted /\ sinceDraw' /\ Len(deck) > 0 /\ Len(deck') < Len(deck)

ComputerActs ==
  /\ gameStarted
  /\ currentPlayer = "computer"
  /\ playerHand' = playerHand
  /\ selectedCards' = selectedCards
  /\ computerHand' # computerHand \/ playArea' # playArea \/ deck' # deck

NewGameStep == (~gameStarted /\ gameStarted') \/ (winner # NoWinner /\ winner' = NoWinner)

IsPrefix(s, t) == Len(s) <= Len(t) /\ SubSeq(t, 1, Len(s)) = s

StartGameYieldsFreshGame ==
  [][/\ StartGameFromAnyState =>
          /\ gameStarted'
          /\ playArea' = <<>>
          /\ selectedCards' = <<>>
          /\ winner' = NoWinner
          /\ Cardinality(dealt') >= 2 * HandSize =>
               /\ Cardinality(playerHand') = HandSize
               /\ Len(computerHand') = HandSize
               /\ Len(deck') = Cardinality(dealt') - 2 * HandSize
          /\ Cardinality(Range(computerHand')) = Len(computerHand')
          /\ playerHand' \cap Range(computerHand') = {}
          /\ Range(deck') = dealt' \ (playerHand' \cup Range(computerHand'))
          /\ deckSize' = Len(deck')
          /\ ~lastMoveWasDouble'
          /\ ~lastMoveWasFiveCard'
          /\ ~roundReset'
          /\ lastPlay' = <<>>
          /\ playerWins' = playerWins
          /\ computerWins' = computerWins
     /\ (gameStarted /\ ~NewGameStep /\ Len(playArea) = 0 /\ Len(playArea') > 0)
          => Len(playArea') = 1]_vars

\* C32 witness: a game was won, a new game was started, and its first card
\* lies on the table
StartGameYieldsFreshGameWitness ==
  /\ gameStarted
  /\ playerWins + computerWins = 1
  /\ winner = NoWinner
  /\ Len(playArea) = 1

\* the cards of hand all have one rank
OneRank(hand) == \A i, j \in 1..Len(hand) : cardValues(hand[i]) = cardValues(hand[j])

\* C33: getPlayInfo returns null for every hand whose size is not 1, 2, 3 or
\* 5, for two cards of different rank and for three cards not all of one
\* rank; for a pair its rank is the rank the two cards share and its
\* tiebreak suit is the higher of their two suits.
PlayInfoNullAndPair ==
  classified.called =>
    LET n == Len(newHand)
        play == classified.play
    IN /\ n \notin {1, 2, 3, 5} => play = NoPlay
       /\ (n \in {2, 3} /\ ~OneRank(newHand)) => play = NoPlay
       /\ (n = 2 /\ OneRank(newHand)) =>
            /\ play.type = "pair"
            /\ play.rankValue = cardValues(newHand[1])
            /\ play.highestSuitValue >= suitValues(newHand[1])
            /\ play.highestSuitValue >= suitValues(newHand[2])
            /\ play.highestSuitValue \in {suitValues(newHand[1]), suitValues(newHand[2])}

\* a pair handed over with its higher suit first has been classified
PlayInfoNullAndPairWitness ==
  /\ classified.called
  /\ Len(newHand) = 2
  /\ OneRank(newHand)
  /\ suitValues(newHand[1]) > suitValues(newHand[2])
  /\ classified.play.type = "pair"

\* C34: the human is recorded as winner only when every card the human holds
\* is on the table: staging cards in the selection never produces a winner.
HumanWinsOnlyWithAllCardsPlayed ==
  winner = "player" => (playerHand = {} /\ selectedCards = <<>>)

\* C35: within one game the winner, once set, never changes and is never
\* cleared, and exactly one of the two win counters is incremented, exactly
\* once, for that game: at the step that records the winner, the counter of
\* that winner goes up by one, and no other step changes a counter.
\* A game ends where startGame begins the next one.
WinnerIsLatchedAndCountedOnce ==
  [][/\ (winner # NoWinner /\ ~StartGame) => winner' = winner
     /\ (winner = NoWinner /\ winner' = "player") =>
          (playerWins' = playerWins + 1 /\ computerWins' = computerWins)
     /\ (winner = NoWinner /\ winner' = "computer") =>
          (computerWins' = computerWins + 1 /\ playerWins' = playerWins)
     /\ ~(winner = NoWinner /\ winner' # NoWinner) =>
          (playerWins' = playerWins /\ computerWins' = computerWins)]_vars

\* the loser has emptied its hand after the winner was recorded
WinnerIsLatchedAndCountedOnceWitness ==
  /\ winner = "player"
  /\ computerHand = <<>>
  /\ playerWins = 1
  /\ computerWins = 0

\* C36: the round flags describe the last play on the table: they are never
\* both true, lastMoveWasDouble holds exactly when the most recent play had
\* 2 cards and lastMoveWasFiveCard exactly when it had 5, after any sequence
\* of human plays, computer plays and draws.
FlagsDescribeLastPlay ==
  /\ ~(lastMoveWasDouble /\ lastMoveWasFiveCard)
  /\ lastMoveWasDouble <=> (Len(lastPlay) = 2)
  /\ lastMoveWasFiveCard <=> (Len(lastPlay) = 5)

\* the computer has answered a five-card play with five cards
FlagsDescribeLastPlayWitness ==
  /\ lastMoveWasFiveCard
  /\ Len(lastPlay) = 5
  /\ currentPlayer = "player"
  /\ Len(playArea) >= 10
  /\ ~roundReset

LegalHand(hand) == GameRules_getPlayInfo(hand) # NoPlay

\* C38: on two legal hands of the same size (1, 2 or 5) isValidMove is
\* irreflexive and asymmetric: isValidMove(a, a) is false, and isValidMove(a, b)
\* and isValidMove(b, a) are never both true; for two hands of different
\* sizes it is false.
IsValidMoveIsStrict ==
  compared.called =>
    /\ (LegalHand(newHand) /\ LegalHand(lastHand) /\ Len(newHand) = Len(lastHand)) =>
         /\ ~(compared.move /\ compared.moveBack)
         /\ newHand = lastHand => ~compared.move
    /\ Len(newHand) # Len(lastHand) => (~compared.move /\ ~compared.moveBack)

\* a five-card hand has been compared with itself
IsValidMoveIsStrictWitness ==
  /\ compared.called
  /\ newHand = lastHand
  /\ Len(newHand) = 5
  /\ LegalHand(newHand)

\* the selection without its last card
Front(s) == SubSeq(s, 1, Len(s) - 1)

\* C39: selectCard followed by deselectCard of the same card restores the
\* player's hand (as a set) and the selection to what they were: selectCard
\* puts the card from the hand behind the selection, and deselectCard of the
\* card last selected takes exactly that card off the selection and puts it
\* back into the hand it was not in. The selection never holds more than 5
\* cards, and no card is in both the hand and the selection.
SelectThenDeselectRestores ==
  [][/\ Len(selectedCards') <= MaxSelected
     /\ playerHand' \cap Range(selectedCards') = {}
     /\ \A card \in playerHand :
          selectCard(card) =>
            /\ selectedCards' = Append(selectedCards, card)
            /\ playerHand' = playerHand \ {card}
            /\ Without(selectedCards', {card}) = selectedCards
            /\ (playerHand' \cup {card}) = playerHand
     /\ (Len(selectedCards) > 0 /\ deselectCard(selectedCards[Len(selectedCards)])) =>
          /\ selectedCards' = Front(selectedCards)
          /\ selectedCards[Len(selectedCards)] \notin playerHand
          /\ playerHand' \ {selectedCards[Len(selectedCards)]} = playerHand]_vars

====
